---- MODULE Spec2Model ----
(***************************************************************************)
(* A model of the Chatty retrieval-augmented chatbot:                      *)
(*   - Config.validate                      (config.py)                    *)
(*   - DocumentProcessor                    (utils/document_processor.py)  *)
(*   - EmbeddingService                     (utils/embedding_service.py)   *)
(*   - SupabaseClient                       (database/supabase_client.py)  *)
(*   - LLMService                           (utils/llm_service.py)         *)
(*   - upload_documents                     (document_uploader.py)         *)
(*   - the Streamlit chat handler, main     (app.py)                       *)
(*                                                                         *)
(* Text is a sequence of lines; a line is [lvl, toks]: lvl = 0 for a body  *)
(* line, k > 0 for a line starting with k '#' marks; toks is the line's    *)
(* text as a sequence of tokens (words).                                   *)
(***************************************************************************)
EXTENDS Integers, Sequences, FiniteSets, TLC

\* ------------------------------------------------------------------ bounds
MaxLines == 4
MaxFiles == 2
MaxQueries == 2
MaxWords == 3

\* ------------------------------------------------- configuration (config.py)
\* Config.CHUNK_SIZE, Config.CHUNK_OVERLAP and Config.TOP_K_RESULTS are read
\* from the environment; the model runs with a small setting of each.
CHUNK_SIZE == 11
CHUNK_OVERLAP == 2
TOP_K_RESULTS == 2

required_vars == <<"OPENAI_API_KEY", "OPENROUTER_API_KEY", "SUPABASE_URL", "SUPABASE_KEY">>

\* What os.getenv gives for a credential: None (unset), "" or a value.
EnvValues == {"<None>", "", "secret"}

\* Python truthiness of a credential attribute: None and "" are falsy.
Truthy(v) == v \notin {"<None>", ""}

Range(s) == {s[i] : i \in DOMAIN s}

RECURSIVE SeqsUpTo(_, _)
SeqsUpTo(S, n) ==
  IF n = 0 THEN {<<>>}
  ELSE LET shorter == SeqsUpTo(S, n - 1)
       IN  shorter \cup {Append(s, x) : s \in {t \in shorter : Len(t) = n - 1}, x \in S}

\* A validate that reports only the first missing variable (one-at-a-time).
validate_first_only(cfg) ==
  LET missing_vars == SelectSeq(required_vars, LAMBDA var : ~Truthy(cfg[var]))
  IN  IF missing_vars # <<>>
      THEN [raised |-> TRUE, missing_vars |-> <<Head(missing_vars)>>]
      ELSE [raised |-> FALSE, missing_vars |-> <<>>]

\* Config.validate: collects every falsy required attribute, in the order of
\* required_vars, and raises one ValueError naming them all.
validate(cfg) ==
  LET missing_vars == SelectSeq(required_vars, LAMBDA var : ~Truthy(cfg[var]))
  IN  IF missing_vars # <<>>
      THEN [raised |-> TRUE, missing_vars |-> missing_vars]
      ELSE [raised |-> FALSE, missing_vars |-> <<>>]

\* ------------------------------------------------------------------- text
\* A short body line, and one longer than CHUNK_SIZE characters.
ShortBody == <<"pay">>
LongBody == <<"You", "may", "appeal", "within", "28", "days">>
H(lvl, name) == [lvl |-> lvl, toks |-> <<name>>]
B(toks) == [lvl |-> 0, toks |-> toks]
HeadingLines == {H(1, "Benefits"), H(1, "Appeals"), H(2, "Weekly"), H(3, "Limits")}
BodyLines == {B(ShortBody), B(LongBody)}
Lines == HeadingLines \cup BodyLines
Texts == SeqsUpTo(Lines, MaxLines)

Marker(lvl) == CASE lvl = 1 -> "#" [] lvl = 2 -> "##" [] OTHER -> "###"

\* The text of a line as tokens: its '#' marks, when it has any, then its words.
LineTokens(line) ==
  IF line.lvl > 0 THEN <<Marker(line.lvl)>> \o line.toks ELSE line.toks

\* "\n".join(lines), as tokens; the line break is a token of its own.
RECURSIVE JoinLines(_)
JoinLines(ls) ==
  IF ls = <<>> THEN <<>>
  ELSE IF Len(ls) = 1 THEN ls[1]
  ELSE ls[1] \o <<"\n">> \o JoinLines(Tail(ls))

TextTokens(text) == JoinLines([i \in DOMAIN text |-> LineTokens(text[i])])

\* str.strip(): leading and trailing white space (here: line breaks) removed.
Strip(toks) ==
  LET inked == {i \in DOMAIN toks : toks[i] # "\n"}
  IN  IF inked = {} THEN <<>>
      ELSE SubSeq(toks, CHOOSE i \in inked : \A j \in inked : i <= j,
                        CHOOSE i \in inked : \A j \in inked : i >= j)

\* len(s) in characters: a word counts two characters, a line break one.
CharLen(toks) == Len(toks) + Len(SelectSeq(toks, LAMBDA w : w # "\n"))

\* str.lower() on the words of the model.
Lower(w) ==
  CASE w = "You" -> "you"
    [] w = "Benefits" -> "benefits"
    [] w = "Appeals" -> "appeals"
    [] w = "Claim" -> "claim"
    [] w = "Workers" -> "workers"
    [] w = "Compensation" -> "compensation"
    [] OTHER -> w

\* len(text.split()): the white-space delimited words.
word_count(toks) == Len(SelectSeq(toks, LAMBDA w : w # "\n"))

\* ------------------------------------------- splitters (document_processor.py)
Min(a, b) == IF a < b THEN a ELSE b

\* TokenTextSplitter(chunk_size, chunk_overlap).split_text: windows of at most
\* CHUNK_SIZE tokens, each starting CHUNK_SIZE - CHUNK_OVERLAP tokens after the
\* last; no piece for an empty text.  start is 0-based.
RECURSIVE TokenSplitFrom(_, _)
TokenSplitFrom(ids, start) ==
  LET cur == Min(start + CHUNK_SIZE, Len(ids))
      piece == SubSeq(ids, start + 1, cur)
  IN  IF start >= Len(ids) THEN <<>>
      ELSE IF cur = Len(ids) THEN <<piece>>
      ELSE <<piece>> \o TokenSplitFrom(ids, start + CHUNK_SIZE - CHUNK_OVERLAP)

token_splitter(toks) == TokenSplitFrom(toks, 0)

\* Header metadata of a section: the heading text in force at each level,
\* "" where there is none ('Header k' absent).
NoHeaders == [k \in 1..3 |-> ""]

\* A heading of level lvl replaces the headings of its level and below.
PushHeader(meta, lvl, name) ==
  [k \in 1..3 |-> IF k < lvl THEN meta[k] ELSE IF k = lvl THEN name ELSE ""]

\* MarkdownHeaderTextSplitter.split_text, line by line: a heading line closes
\* the section collected so far (when it has content) and is itself dropped;
\* a body line joins the current section.
RECURSIVE HeaderSplitFrom(_, _, _, _, _)
HeaderSplitFrom(text, i, meta, cur, out) ==
  LET flushed == IF cur = <<>> THEN out
                 ELSE Append(out, [lines |-> cur, metadata |-> meta])
  IN  IF i > Len(text) THEN flushed
      ELSE IF text[i].lvl > 0
           THEN HeaderSplitFrom(text, i + 1,
                                PushHeader(meta, text[i].lvl, text[i].toks[1]),
                                <<>>, flushed)
           ELSE HeaderSplitFrom(text, i + 1, meta, Append(cur, text[i].toks), out)

\* Consecutive sections with equal metadata are merged into one.
RECURSIVE Aggregate(_, _)
Aggregate(secs, out) ==
  IF secs = <<>> THEN out
  ELSE IF out # <<>> /\ out[Len(out)].metadata = Head(secs).metadata
       THEN Aggregate(Tail(secs),
                      [out EXCEPT ![Len(out)].lines = @ \o Head(secs).lines])
       ELSE Aggregate(Tail(secs), Append(out, Head(secs)))

markdown_splitter(text) ==
  LET secs == Aggregate(HeaderSplitFrom(text, 1, NoHeaders, <<>>, <<>>), <<>>)
  IN  [i \in DOMAIN secs |->
         [page_content |-> JoinLines(secs[i].lines), metadata |-> secs[i].metadata]]

\* ------------------------------------ file names (os.path.basename/splitext)
\* A file name is [stem, ext]; ext as written, lower-cased where the code does.
Exts == {".md", ".MD", ".pdf", ".txt"}
LowerExt(ext) == IF ext = ".MD" THEN ".md" ELSE ext
IsMarkdownExt(ext) == LowerExt(ext) \in {".md", ".markdown"}

\* ---------------------------------- _extract_semantic_info (lines 186-217)
\* kw in text_lower, for the words of the model: a key word occurs when one
\* lower-cased word of the text contains it, a key phrase of several words
\* when the text holds its words one after the other on one line.
Substr(kw, w) == kw = w \/ (kw = "appeal" /\ w = "appeals")

KwWords(kw) ==
  CASE kw = "how to" -> <<"how", "to">>
    [] kw = "workers compensation" -> <<"workers", "compensation">>
    [] kw = "return to work" -> <<"return", "to", "work">>
    [] kw = "permanent impairment" -> <<"permanent", "impairment">>
    [] kw = "weekly payments" -> <<"weekly", "payments">>
    [] OTHER -> <<kw>>

\* kw in text, with text as it is or lower-cased (fold).
OccursIn(kw, toks, fold) ==
  LET ws == KwWords(kw)
      word(i) == IF fold THEN Lower(toks[i]) ELSE toks[i]
  IN  \E i \in DOMAIN toks :
        /\ i + Len(ws) - 1 <= Len(toks)
        /\ IF Len(ws) = 1 THEN Substr(kw, word(i))
           ELSE \A j \in DOMAIN ws : ws[j] = word(i + j - 1)

Occurs(kw, toks) == OccursIn(kw, toks, TRUE)

claims_words == <<"claim", "injury", "compensation", "benefits">>
legal_words == <<"law", "regulation", "policy", "rule">>
procedural_words == <<"process", "step", "procedure", "how to">>
contact_words == <<"contact", "phone", "email", "address">>
keywords == <<"workers compensation", "injury", "claim", "benefits", "medical",
              "rehabilitation", "return to work", "permanent impairment",
              "weekly payments", "employer", "employee", "insurance", "legal",
              "appeal", "dispute">>

AnyOccurs(words, toks) == \E i \in DOMAIN words : Occurs(words[i], toks)

\* An analysis that looks for the legal words first.
extract_semantic_info_legal_first(toks) ==
  [content_type |->
     IF AnyOccurs(legal_words, toks) THEN "legal"
     ELSE IF AnyOccurs(claims_words, toks) THEN "claims"
     ELSE IF AnyOccurs(procedural_words, toks) THEN "procedural"
     ELSE IF AnyOccurs(contact_words, toks) THEN "contact"
     ELSE "general",
   key_topics |-> SelectSeq(keywords, LAMBDA kw : Occurs(kw, toks))]

\* An analysis that looks for the key words in the text as written.
extract_semantic_info_as_written(toks) ==
  [content_type |->
     IF AnyOccurs(claims_words, toks) THEN "claims"
     ELSE IF AnyOccurs(legal_words, toks) THEN "legal"
     ELSE IF AnyOccurs(procedural_words, toks) THEN "procedural"
     ELSE IF AnyOccurs(contact_words, toks) THEN "contact"
     ELSE "general",
   key_topics |-> SelectSeq(keywords, LAMBDA kw : OccursIn(kw, toks, FALSE))]

extract_semantic_info(toks) ==
  [content_type |->
     IF AnyOccurs(claims_words, toks) THEN "claims"
     ELSE IF AnyOccurs(legal_words, toks) THEN "legal"
     ELSE IF AnyOccurs(procedural_words, toks) THEN "procedural"
     ELSE IF AnyOccurs(contact_words, toks) THEN "contact"
     ELSE "general",
   key_topics |-> SelectSeq(keywords, LAMBDA kw : Occurs(kw, toks))]

\* ------------------------------------------------ chunkers (lines 93-184)
\* External faults a chunking run can meet: the header splitter raising
\* ("md_split"), the token splitter raising inside the Markdown path
\* ("md_token") or inside the general path ("general_token").
ChunkFaults == {"md_split", "md_token", "general_token"}

\* Lines 157-184.  Raises when the token splitter does.  raised: the
\* exceptions raised on the way, in order.
chunk_general_semantic(text, filename, title, faults) ==
  IF "general_token" \in faults
  THEN [ok |-> FALSE, chunks |-> <<>>, raised |-> <<"general_token">>]
  ELSE
  LET build(text_chunks) ==
        [i \in DOMAIN text_chunks |->
           LET semantic_info == extract_semantic_info(text_chunks[i])
           IN  [content |-> Strip(text_chunks[i]),
                metadata |->
                  [filename |-> filename,
                   title |-> title,
                   chunk_index |-> i - 1,
                   total_chunks |-> Len(text_chunks),
                   file_type |-> LowerExt(filename.ext),
                   semantic_split |-> TRUE,
                   content_type |-> semantic_info.content_type,
                   key_topics |-> semantic_info.key_topics,
                   word_count |-> word_count(text_chunks[i])]]]
  IN  [ok |-> TRUE,
       chunks |-> CHOOSE r \in {build(text_chunks) :
                                text_chunks \in {token_splitter(TextTokens(text))}} : TRUE,
       raised |-> <<>>]

\* A tag that prefers the deepest heading of the section.
header_info_deepest(metadata) ==
  IF metadata[3] # "" THEN metadata[3]
  ELSE IF metadata[2] # "" THEN metadata[2]
  ELSE metadata[1]

\* Line 119: the first non-empty of Header 1, Header 2, Header 3.
header_info(metadata) ==
  IF metadata[1] # "" THEN metadata[1]
  ELSE IF metadata[2] # "" THEN metadata[2]
  ELSE metadata[3]

\* Lines 122-126: a section longer than CHUNK_SIZE characters is re-split.
sub_chunks(split) ==
  IF CharLen(split.page_content) > CHUNK_SIZE
  THEN token_splitter(split.page_content)
  ELSE <<split.page_content>>

\* A numbering that restarts in every section (the sub-chunk index used as
\* the chunk index).
md_chunk_index_per_section(before, i) == i - 1

\* Line 135 and 144: the chunk index is the number of chunks appended before.
md_chunk_index(before, i) == before + (i - 1)

\* Lines 117-144: the chunks of the sections, in order; before is the number
\* of chunks of the earlier sections.
\* (Where a value is used many times it is bound as the one element of a
\* set, x \in {e}, so that it is computed once.)
RECURSIVE SectionChunks(_, _, _, _, _)
SectionChunks(splits, k, before, filename, title) ==
  IF k > Len(splits) THEN <<>>
  ELSE LET mine(subs) ==
             [i \in DOMAIN subs |->
                [content |-> Strip(subs[i]),
                 metadata |->
                   [filename |-> filename,
                    title |-> title,
                    chunk_index |-> md_chunk_index(before, i),
                    section_header |-> header_info(splits[k].metadata),
                    file_type |-> "markdown",
                    semantic_split |-> TRUE,
                    sub_chunk_index |-> i - 1,
                    total_sub_chunks |-> Len(subs)]]]
       IN  CHOOSE r \in
             {mine(subs) \o
                SectionChunks(splits, k + 1, before + Len(subs), filename, title) :
              subs \in {sub_chunks(splits[k])}} : TRUE

\* Lines 147-148: every chunk's metadata gets total_chunks = len(chunks).
WithTotal(chunks) ==
  CHOOSE r \in
    {[i \in DOMAIN cs |->
        [content |-> cs[i].content,
         metadata |->
           [key \in DOMAIN cs[i].metadata \cup {"total_chunks"} |->
              IF key = "total_chunks" THEN Len(cs) ELSE cs[i].metadata[key]]]] :
     cs \in {chunks}} : TRUE

\* The exception raised inside the try of _chunk_markdown_semantic, "" when
\* there is none: by the header splitter, or by the token splitter on a
\* section longer than CHUNK_SIZE.
md_exception(header_splits, faults) ==
  IF "md_split" \in faults THEN "md_split"
  ELSE IF /\ "md_token" \in faults
          /\ \E k \in DOMAIN header_splits :
                CharLen(header_splits[k].page_content) > CHUNK_SIZE
       THEN "md_token"
       ELSE ""

\* A Markdown chunker without the except clause: its exception is the caller's.
chunk_markdown_semantic_no_fallback(text, filename, title, faults) ==
  LET try(header_splits) ==
        IF md_exception(header_splits, faults) # ""
        THEN [ok |-> FALSE, chunks |-> <<>>,
              raised |-> <<md_exception(header_splits, faults)>>]
        ELSE [ok |-> TRUE,
              chunks |-> WithTotal(SectionChunks(header_splits, 1, 0, filename, title)),
              raised |-> <<>>]
  IN  CHOOSE r \in {try(header_splits) : header_splits \in {markdown_splitter(text)}} : TRUE

\* Lines 108-155.  Any exception inside the try (the header splitter, or the
\* token splitter on a long section) discards what was built and falls back
\* to the general path on the whole text.
chunk_markdown_semantic(text, filename, title, faults) ==
  LET fallback(e) ==
        CHOOSE r \in
          {[ok |-> g.ok, chunks |-> g.chunks, raised |-> <<e>> \o g.raised] :
           g \in {chunk_general_semantic(text, filename, title, faults)}} : TRUE
      try(header_splits) ==
        IF md_exception(header_splits, faults) # ""
        THEN CHOOSE r \in {fallback(e) : e \in {md_exception(header_splits, faults)}} : TRUE
        ELSE [ok |-> TRUE,
              chunks |-> WithTotal(SectionChunks(header_splits, 1, 0, filename, title)),
              raised |-> <<>>]
  IN  CHOOSE r \in {try(header_splits) : header_splits \in {markdown_splitter(text)}} : TRUE

\* A chunk_text that refuses an empty text.
chunk_text_rejects_empty(text, filename, title, faults) ==
  LET t == IF title = "" THEN filename.stem ELSE title
  IN  IF text = <<>> THEN [ok |-> FALSE, chunks |-> <<>>, raised |-> <<"empty">>]
      ELSE IF IsMarkdownExt(filename.ext)
      THEN chunk_markdown_semantic(text, filename, t, faults)
      ELSE chunk_general_semantic(text, filename, t, faults)

\* Lines 93-106.  title is "" when the caller gave none.
chunk_text(text, filename, title, faults) ==
  LET t == IF title = "" THEN filename.stem ELSE title
  IN  IF IsMarkdownExt(filename.ext)
      THEN chunk_markdown_semantic(text, filename, t, faults)
      ELSE chunk_general_semantic(text, filename, t, faults)

\* -------------------------------------------- extraction (lines 55-91, 219-242)
\* A file on disk: its name, whether it exists, whether it can be read and
\* parsed, its content (lines; for a PDF the text lines of its pages) and size.
\* "# Benefits\n<one line>\n# Appeals\n<one line>", no longer than CHUNK_SIZE.
MdSource == <<H(1, "Benefits"), B(ShortBody), H(1, "Appeals"), B(ShortBody)>>

\* markdown.markdown(content) followed by re.sub(r'<[^>]+>', '', html): every
\* block becomes its text, so a heading line loses its '#' marks.
StripMarkup(src) == [i \in DOMAIN src |-> [lvl |-> 0, toks |-> src[i].toks]]

extract_text_from_markdown(file) ==
  IF ~file.readable THEN [ok |-> FALSE, text |-> <<>>]
  ELSE [ok |-> TRUE, text |-> StripMarkup(file.src)]

\* Page texts joined; the text of the pages is kept as it is.
extract_text_from_pdf(file) ==
  IF ~file.readable THEN [ok |-> FALSE, text |-> <<>>]
  ELSE [ok |-> TRUE, text |-> file.src]

\* Lines 82-91: dispatch on the lower-cased extension.
extract_text(file) ==
  IF LowerExt(file.name.ext) = ".pdf" THEN extract_text_from_pdf(file)
  ELSE IF IsMarkdownExt(file.name.ext) THEN extract_text_from_markdown(file)
  ELSE [ok |-> FALSE, text |-> <<>>]

\* Lines 219-242.  ok = FALSE when extraction or chunking raised.
process_document(file, faults) ==
  LET ex == extract_text(file)
      info(ch) ==
        IF ~ch.ok THEN [ok |-> FALSE]
        ELSE [ok |-> TRUE,
              filename |-> file.name,
              title |-> file.name.stem,
              content_type |-> LowerExt(file.name.ext),
              file_size |-> file.size,
              chunks |-> ch.chunks,
              total_chunks |-> Len(ch.chunks)]
  IN  IF ~ex.ok THEN [ok |-> FALSE]
      ELSE CHOOSE r \in
             {info(ch) :
              ch \in {chunk_text(ex.text, file.name, file.name.stem, faults)}} : TRUE

\* ------------------------------------------ embedding (embedding_service.py)
\* The vector the embedding model gives a text.
Vec(content) == <<"vec", content>>

\* What the embeddings endpoint can do with a batch of texts: fail, answer one
\* vector per text in order, or answer with a vector too few or too many.
ApiBehaviours == {"error", "exact", "short", "long"}

EmbeddingsCreate(texts, behaviour) ==
  LET exact == [i \in DOMAIN texts |-> Vec(texts[i])]
  IN  CASE behaviour = "error" -> [ok |-> FALSE, data |-> <<>>]
        [] behaviour = "short" /\ texts # <<>> ->
             [ok |-> TRUE, data |-> SubSeq(exact, 1, Len(exact) - 1)]
        [] behaviour = "long" -> [ok |-> TRUE, data |-> Append(exact, Vec(<<>>))]
        [] OTHER -> [ok |-> TRUE, data |-> exact]

\* Lines 24-33.
get_embeddings_batch(texts, behaviour) == EmbeddingsCreate(texts, behaviour)

\* chunk with chunk["embedding"] = embedding.
SetEmbedding(chunk, embedding) ==
  [key \in DOMAIN chunk \cup {"embedding"} |->
     IF key = "embedding" THEN embedding ELSE chunk[key]]

\* An assignment loop that pairs the vectors with the chunks in reverse.
assign_embeddings_reversed(chunks, embeddings) ==
  [i \in DOMAIN chunks |->
     IF i <= Len(embeddings)
     THEN SetEmbedding(chunks[i], embeddings[Len(embeddings) + 1 - i])
     ELSE chunks[i]]

\* Lines 40-41: for i, embedding in enumerate(embeddings): chunks[i][..] = ..
assign_embeddings(chunks, embeddings) ==
  [i \in DOMAIN chunks |->
     IF i <= Len(embeddings) THEN SetEmbedding(chunks[i], embeddings[i])
     ELSE chunks[i]]

\* Lines 35-43.  Raises when the batch call does, and (IndexError) when the
\* answer holds more vectors than there are chunks.  received: the number of
\* vectors in the answer.
embed_chunks(chunks, behaviour) ==
  LET texts == [i \in DOMAIN chunks |-> chunks[i].content]
      resp == get_embeddings_batch(texts, behaviour)
  IN  IF ~resp.ok \/ Len(resp.data) > Len(chunks)
      THEN [ok |-> FALSE, chunks |-> <<>>, received |-> Len(resp.data)]
      ELSE [ok |-> TRUE, chunks |-> assign_embeddings(chunks, resp.data),
            received |-> Len(resp.data)]

\* ------------------------------------------------ store (supabase_client.py)
\* json.dumps / json.loads of a metadata mapping.
JsonDumps(m) == [json |-> m]
JsonLoads(s) == s.json

\* Lines 15-23: the row sent to chat_bot_documents.
DocumentRow(id, doc) ==
  [id |-> id, filename |-> doc.filename, title |-> doc.title,
   content_type |-> doc.content_type, file_size |-> doc.file_size]

\* Lines 27-36: one row per chunk, chunk_index from enumerate; the rows are
\* built only as far as the chunks carry an embedding (KeyError otherwise).
ChunkData(document_id, chunks) ==
  [i \in DOMAIN chunks |->
     [document_id |-> document_id,
      chunk_index |-> i - 1,
      content |-> chunks[i].content,
      metadata |-> JsonDumps(chunks[i].metadata),
      embedding |-> chunks[i].embedding]]

\* An insert that sends the rows of the chunks that carry an embedding and
\* skips the rest.
insert_chunks_partial(document_id, chunks, store_ok) ==
  LET have == SelectSeq(chunks, LAMBDA c : "embedding" \in DOMAIN c)
  IN  IF ~store_ok THEN [ok |-> FALSE, called |-> TRUE, rows |-> <<>>]
      ELSE [ok |-> TRUE, called |-> TRUE, rows |-> ChunkData(document_id, have)]

\* Lines 25-38.  called: whether the one insert request was sent; rows: what
\* it wrote (the request writes all of its rows or none).
insert_chunks(document_id, chunks, store_ok) ==
  IF \E i \in DOMAIN chunks : "embedding" \notin DOMAIN chunks[i]
  THEN [ok |-> FALSE, called |-> FALSE, rows |-> <<>>]
  ELSE IF ~store_ok THEN [ok |-> FALSE, called |-> TRUE, rows |-> <<>>]
  ELSE [ok |-> TRUE, called |-> TRUE, rows |-> ChunkData(document_id, chunks)]

\* ------------------------------------------------- composer (llm_service.py)
\* A retrieval result is [content, metadata, similarity]; its metadata comes
\* as a mapping ("dict") or as a string ("str") that is JSON or is not.
\* A mapping is a function from some of the keys filename, title to strings.
MetaFull == [filename |-> "guide.md", title |-> "Guide"]
MetaNoTitle == [filename |-> "act.pdf"]
MetaEmpty == [x \in {} |-> ""]

Results ==
  { [content |-> "c1", similarity |-> 85,
     metadata |-> [form |-> "dict", valid |-> TRUE, dict |-> MetaFull]],
    [content |-> "c2", similarity |-> 80,
     metadata |-> [form |-> "str", valid |-> TRUE, dict |-> MetaNoTitle]],
    [content |-> "c3", similarity |-> 79,
     metadata |-> [form |-> "str", valid |-> FALSE, dict |-> MetaEmpty]] }

\* What search_similar_chunks can return: at most top_k results, each a
\* different row of the chunk table.
ResultSeqs ==
  {rs \in SeqsUpTo(Results, TOP_K_RESULTS) :
     \A i, j \in DOMAIN rs : rs[i] = rs[j] => i = j}

Questions == {"How do I appeal?", "What can I claim?"}

\* dict.get(key, default)
Get(d, key, default) == IF key \in DOMAIN d THEN d[key] ELSE default

\* Lines 34-39 (and app.py 96-101): a string is parsed, {} when that fails.
LoadMetadata(metadata) ==
  IF metadata.form = "str"
  THEN (IF metadata.valid THEN metadata.dict ELSE MetaEmpty)
  ELSE metadata.dict

\* Lines 41-45: one numbered block, f"[{i}] Source: {title} ({filename})\n{content}\n".
ContextBlock(i, chunk) ==
  LET metadata == LoadMetadata(chunk.metadata)
      filename == Get(metadata, "filename", "Unknown")
      title == Get(metadata, "title", filename)
  IN  [n |-> i, title |-> title, filename |-> filename, content |-> chunk.content]

\* A context that lists the blocks last to first.
prepare_context_reversed(chunks) ==
  [i \in DOMAIN chunks |-> ContextBlock(i, chunks[Len(chunks) + 1 - i])]

\* Lines 30-48: the blocks, numbered from 1, in the order of chunks.
prepare_context(chunks) == [i \in DOMAIN chunks |-> ContextBlock(i, chunks[i])]

\* Lines 50-67: the fixed instruction text around the context and the question.
create_prompt(question, context) ==
  [role |-> "You are Chatty", context |-> context, question |-> question]

\* What the chat completions request can meet: an answer, a body without
\* choices[0].message.content, a non-200 status, a transport error.
HttpOutcomes == {"200", "200_malformed", "500", "timeout"}

\* Lines 69-106: the answer (stripped) on 200, else an exception.
call_openrouter(prompt, http) ==
  CASE http = "200" -> [ok |-> TRUE, text |-> "answer"]
    [] http = "200_malformed" ->
         [ok |-> FALSE, text |-> "Unexpected response format from OpenRouter"]
    [] http = "500" -> [ok |-> FALSE, text |-> "OpenRouter API error: 500"]
    [] OTHER -> [ok |-> FALSE, text |-> "Error calling OpenRouter API"]

InsufficientMsg == "I don't have enough information in my knowledge base"

\* A composer that answers an empty context itself, without a generation call.
generate_response_guarded(question, context_chunks, http) ==
  IF context_chunks = <<>>
  THEN [ok |-> TRUE, text |-> InsufficientMsg, sent |-> <<>>]
  ELSE LET prompt == create_prompt(question, prepare_context(context_chunks))
           r == call_openrouter(prompt, http)
       IN  [ok |-> r.ok, text |-> r.text, sent |-> <<prompt>>]

\* A composer that sends the prompt a second time when the first call fails.
generate_response_retrying(question, context_chunks, http) ==
  LET prompt == create_prompt(question, prepare_context(context_chunks))
      r == call_openrouter(prompt, http)
  IN  IF r.ok THEN [ok |-> TRUE, text |-> r.text, sent |-> <<prompt>>]
      ELSE [ok |-> FALSE, text |-> r.text, sent |-> <<prompt, prompt>>]

\* Lines 17-28.  sent: the prompts passed to _call_openrouter.
generate_response(question, context_chunks, http) ==
  LET context_text == prepare_context(context_chunks)
      prompt == create_prompt(question, context_text)
      r == call_openrouter(prompt, http)
  IN  [ok |-> r.ok, text |-> r.text, sent |-> <<prompt>>]

\* A source list that shows the results last to first.
format_sources_reversed(chunks) ==
  [i \in DOMAIN chunks |->
     LET chunk == chunks[Len(chunks) + 1 - i]
         metadata == LoadMetadata(chunk.metadata)
         filename == Get(metadata, "filename", "Unknown")
         title == Get(metadata, "title", filename)
     IN  [n |-> i, title |-> title, filename |-> filename,
          similarity |-> chunk.similarity]]

\* app.py 92-109: f"[{i}] {title} ({filename}) - Similarity: {similarity:.2f}".
format_sources(chunks) ==
  [i \in DOMAIN chunks |->
     LET metadata == LoadMetadata(chunks[i].metadata)
         filename == Get(metadata, "filename", "Unknown")
         title == Get(metadata, "title", filename)
     IN  [n |-> i, title |-> title, filename |-> filename,
          similarity |-> chunks[i].similarity]]

\* ------------------------------------------------------------------ state
VARIABLES
  config,                  \* Config's credential attributes
  calls,                   \* the operations performed on files and gateways
  file_paths,              \* upload_documents: its argument
  pc,                      \* upload_documents: where it is
  fi,                      \* upload_documents: index of the file in the loop
  doc_info,                \* upload_documents: process_document's result
  chunks_with_embeddings,  \* upload_documents: embed_chunks' result
  document_id,             \* upload_documents: insert_document's result
  documents,               \* store: chat_bot_documents
  chunk_rows,              \* store: chat_bot_document_chunks
  stdout,                  \* upload_documents: what it printed
  services,                \* app: initialize_services' (cached) result
  messages,                \* app: st.session_state.messages
  qpc,                     \* app: where the chat handler is
  nq,                      \* app: questions submitted so far
  question,                \* app: prompt, the question being handled
  similar_chunks,          \* app: the search result of the question
  dp_in,                   \* DocumentProcessor called directly: its input
  dp_out,                  \* DocumentProcessor called directly: its result
  llm_in,                  \* LLMService called directly: its input
  llm_out,                 \* LLMService called directly: its result
  ingestions               \* ingestions run side by side: the locals of each

cfg_vars == <<config, calls>>
up_vars == <<file_paths, pc, fi, doc_info, chunks_with_embeddings, document_id,
             documents, chunk_rows, stdout>>
app_vars == <<services, messages, qpc, nq, question, similar_chunks>>
dp_vars == <<dp_in, dp_out>>
llm_vars == <<llm_in, llm_out>>
cc_vars == <<ingestions>>
vars == <<cfg_vars, up_vars, app_vars, dp_vars, llm_vars, cc_vars>>

Configs == [Range(required_vars) -> EnvValues]
GoodConfig == [v \in Range(required_vars) |-> "secret"]

\* The files a run can be pointed at.
Files ==
  { [name |-> [stem |-> "guide", ext |-> ".md"], exists |-> TRUE, readable |-> TRUE,
     src |-> MdSource, size |-> 4],
    [name |-> [stem |-> "act", ext |-> ".pdf"], exists |-> TRUE, readable |-> TRUE,
     src |-> <<B(LongBody), B(LongBody)>>, size |-> 12],
    [name |-> [stem |-> "notes", ext |-> ".txt"], exists |-> TRUE, readable |-> TRUE,
     src |-> <<B(ShortBody)>>, size |-> 1],
    [name |-> [stem |-> "gone", ext |-> ".md"], exists |-> FALSE, readable |-> FALSE,
     src |-> <<>>, size |-> 0],
    [name |-> [stem |-> "broken", ext |-> ".pdf"], exists |-> TRUE, readable |-> FALSE,
     src |-> <<>>, size |-> 3],
    [name |-> [stem |-> "empty", ext |-> ".MD"], exists |-> TRUE, readable |-> TRUE,
     src |-> <<>>, size |-> 0] }

NoDoc == [ok |-> FALSE]

UploadOff ==
  /\ file_paths = <<>> /\ pc = "off" /\ fi = 0 /\ doc_info = NoDoc
  /\ chunks_with_embeddings = <<>> /\ document_id = 0
  /\ documents = <<>> /\ chunk_rows = <<>> /\ stdout = <<>>

AppOff ==
  /\ services = "unset" /\ messages = <<>> /\ qpc = "off" /\ nq = 0
  /\ question = "" /\ similar_chunks = <<>>

DpOff == dp_in = [call |-> "none"] /\ dp_out = [ok |-> FALSE]
LlmOff == llm_in = [n |-> 0] /\ llm_out = [ok |-> FALSE]
CcOff == ingestions = <<>>

\* --------------------------------- upload_documents (document_uploader.py)
InitUpload ==
  /\ config \in Configs
  /\ calls = <<>>
  /\ file_paths \in SeqsUpTo(Files, MaxFiles)
  /\ pc = "start" /\ fi = 1 /\ doc_info = NoDoc
  /\ chunks_with_embeddings = <<>> /\ document_id = 0
  /\ documents = <<>> /\ chunk_rows = <<>> /\ stdout = <<>>
  /\ AppOff /\ DpOff /\ LlmOff /\ CcOff

Call(op, ok, n, doc) == [op |-> op, at |-> fi, ok |-> ok, n |-> n, doc |-> doc]
Said(msg) == [msg |-> msg, file |-> fi, stage |-> ""]

\* A handler that gives the run up on the first file that fails.
file_error_abort == "exit"

\* Lines 68-70: except Exception: print; continue.
file_error_pc == "loop"

FileError(stage) ==
  /\ stdout' = Append(stdout, [msg |-> "error", file |-> fi, stage |-> stage])
  /\ pc' = file_error_pc
  /\ fi' = fi + 1

\* Lines 27-36, 74-76: Config.validate, then the constructors of the three
\* services (built: none of them raised); a failure of either is fatal
\* (sys.exit(1)).
UploadValidate ==
  /\ pc = "start"
  /\ \E built \in BOOLEAN :
       LET v == validate(config)
       IN  IF v.raised
           THEN /\ pc' = "exit"
                /\ stdout' = Append(stdout, [msg |-> "fatal", file |-> 0,
                                             stage |-> "validate",
                                             missing_vars |-> v.missing_vars])
           ELSE IF ~built
           THEN /\ pc' = "exit"
                /\ stdout' = Append(stdout, [msg |-> "fatal", file |-> 0,
                                             stage |-> "services",
                                             missing_vars |-> <<>>])
           ELSE /\ pc' = "loop"
                /\ stdout' = stdout
  /\ UNCHANGED <<cfg_vars, file_paths, fi, doc_info, chunks_with_embeddings,
                 document_id, documents, chunk_rows, app_vars, dp_vars, llm_vars, cc_vars>>

\* Lines 38-41: a path that does not exist is reported and skipped.
UploadNotFound ==
  /\ pc = "loop" /\ fi <= Len(file_paths)
  /\ ~file_paths[fi].exists
  /\ stdout' = Append(stdout, Said("not_found"))
  /\ fi' = fi + 1
  /\ UNCHANGED <<cfg_vars, file_paths, pc, doc_info, chunks_with_embeddings,
                 document_id, documents, chunk_rows, app_vars, dp_vars, llm_vars, cc_vars>>

\* Lines 45-48: process_document.
UploadProcess ==
  /\ pc = "loop" /\ fi <= Len(file_paths)
  /\ file_paths[fi].exists
  /\ \E faults \in SUBSET ChunkFaults :
       \E d \in {process_document(file_paths[fi], faults)} :
           /\ calls' = Append(calls, Call("process_document", d.ok, 0, 0))
           /\ IF d.ok
              THEN /\ doc_info' = d
                   /\ pc' = "embed"
                   /\ UNCHANGED <<stdout, fi, cc_vars>>
              ELSE /\ doc_info' = NoDoc
                   /\ FileError("process_document")
  /\ UNCHANGED <<config, file_paths, chunks_with_embeddings, document_id,
                 documents, chunk_rows, app_vars, dp_vars, llm_vars, cc_vars>>

\* Lines 50-53: embed_chunks.
UploadEmbed ==
  /\ pc = "embed"
  /\ \E behaviour \in ApiBehaviours :
       \E e \in {embed_chunks(doc_info.chunks, behaviour)} :
           /\ calls' = Append(calls, [op |-> "embed", at |-> fi, ok |-> e.ok,
                                       n |-> Len(doc_info.chunks), doc |-> 0,
                                       received |-> e.received])
           /\ chunks_with_embeddings' = e.chunks
           /\ IF e.ok
              THEN pc' = "insert_document" /\ UNCHANGED <<stdout, fi, cc_vars>>
              ELSE FileError("embed")
  /\ UNCHANGED <<config, file_paths, doc_info, document_id, documents, chunk_rows,
                 app_vars, dp_vars, llm_vars, cc_vars>>

\* Lines 55-62: insert_document; the store generates the id.
UploadInsertDocument ==
  /\ pc = "insert_document"
  /\ \E store_ok \in BOOLEAN :
       /\ calls' = Append(calls, Call("insert_document", store_ok, 1,
                                      IF store_ok THEN Len(documents) + 1 ELSE 0))
       /\ IF store_ok
          THEN /\ document_id' = Len(documents) + 1
               /\ documents' = Append(documents, DocumentRow(Len(documents) + 1, doc_info))
               /\ pc' = "insert_chunks"
               /\ UNCHANGED <<stdout, fi, cc_vars>>
          ELSE /\ UNCHANGED <<document_id, documents, cc_vars>>
               /\ FileError("insert_document")
  /\ UNCHANGED <<config, file_paths, doc_info, chunks_with_embeddings, chunk_rows,
                 app_vars, dp_vars, llm_vars, cc_vars>>

\* A handler that deletes the document row when its chunks were not written.
documents_compensated(rows, id) == SelectSeq(rows, LAMBDA row : row.id # id)

\* Lines 68-70: the except clause leaves the store as it is.
documents_on_error(rows, id) == rows

\* Lines 64-66: insert_chunks, then the file is done.
UploadInsertChunks ==
  /\ pc = "insert_chunks"
  /\ \E store_ok \in BOOLEAN :
       \E r \in {insert_chunks(document_id, chunks_with_embeddings, store_ok)} :
           /\ calls' = IF r.called
                       THEN Append(calls, Call("insert_chunks", r.ok,
                                               Len(chunks_with_embeddings), document_id))
                       ELSE calls
           /\ chunk_rows' = chunk_rows \o r.rows
           /\ IF r.ok
              THEN /\ stdout' = Append(stdout, Said("uploaded"))
                   /\ pc' = "loop"
                   /\ fi' = fi + 1
                   /\ documents' = documents
              ELSE /\ FileError("insert_chunks")
                   /\ documents' = documents_on_error(documents, document_id)
  /\ UNCHANGED <<config, file_paths, doc_info, chunks_with_embeddings, document_id,
                 app_vars, dp_vars, llm_vars, cc_vars>>

\* Line 72: the loop is over.
UploadCompleted ==
  /\ pc = "loop" /\ fi > Len(file_paths)
  /\ pc' = "completed"
  /\ stdout' = Append(stdout, [msg |-> "completed", file |-> 0, stage |-> ""])
  /\ UNCHANGED <<cfg_vars, file_paths, fi, doc_info, chunks_with_embeddings,
                 document_id, documents, chunk_rows, app_vars, dp_vars, llm_vars, cc_vars>>

NextUpload ==
  \/ UploadValidate
  \/ UploadNotFound
  \/ UploadProcess
  \/ UploadEmbed
  \/ UploadInsertDocument
  \/ UploadInsertChunks
  \/ UploadCompleted

SpecUpload == InitUpload /\ [][NextUpload]_vars

\* The script runs on its own: a step that can be taken is taken.
SpecUploadFair == SpecUpload /\ WF_vars(NextUpload)

\* ------------------------------- DocumentProcessor called directly on a text
DocNames == {[stem |-> "doc", ext |-> ".md"], [stem |-> "doc", ext |-> ".pdf"]}
Titles == {"", "Guide"}

InitChunk ==
  /\ config = GoodConfig /\ calls = <<>>
  /\ dp_in \in {[call |-> "pending", text |-> t] : t \in Texts}
  /\ dp_out = [ok |-> FALSE]
  /\ UploadOff /\ AppOff /\ LlmOff /\ CcOff

\* chunk_text(text, filename, title)
DpChunkText ==
  /\ dp_in.call = "pending"
  /\ \E filename \in DocNames, title \in Titles, faults \in SUBSET ChunkFaults :
       \E r \in {chunk_text(dp_in.text, filename, title, faults)} :
           /\ dp_in' = [call |-> "chunk_text", text |-> dp_in.text,
                        filename |-> filename, clean |-> faults = {}]
           /\ dp_out' = [ok |-> r.ok, chunks |-> r.chunks, rows |-> <<>>,
                         raised |-> r.raised]
  /\ UNCHANGED <<cfg_vars, up_vars, app_vars, llm_vars, cc_vars>>

\* process_document(file_path) on a readable file holding the text
DpProcessDocument ==
  /\ dp_in.call = "pending"
  /\ \E filename \in DocNames, faults \in SUBSET ChunkFaults :
       LET file == [name |-> filename, exists |-> TRUE, readable |-> TRUE,
                    src |-> dp_in.text, size |-> Len(dp_in.text)]
       IN  \E r \in {process_document(file, faults)} :
           /\ dp_in' = [call |-> "process_document", text |-> dp_in.text,
                        filename |-> filename, clean |-> faults = {}]
           /\ dp_out' = [ok |-> r.ok, chunks |-> IF r.ok THEN r.chunks ELSE <<>>,
                         rows |-> <<>>]
  /\ UNCHANGED <<cfg_vars, up_vars, app_vars, llm_vars, cc_vars>>

\* embed_chunks, then the rows insert_chunks sends for the chunks
DpStore ==
  /\ dp_in.call \in {"chunk_text", "process_document"}
  /\ dp_out.ok /\ dp_out.chunks # <<>> /\ dp_out.rows = <<>>
  /\ LET e == embed_chunks(dp_out.chunks, "exact")
         r == insert_chunks(1, e.chunks, TRUE)
     IN  dp_out' = [dp_out EXCEPT !.rows = r.rows]
  /\ UNCHANGED <<cfg_vars, up_vars, app_vars, llm_vars, dp_in, cc_vars>>

NextChunk == DpChunkText \/ DpProcessDocument \/ DpStore

SpecChunk == InitChunk /\ [][NextChunk]_vars

\* The same operations on one-line texts made of words of the key word
\* groups and of the topic vocabulary, in either letter case.
TopicWords == {"Claim", "law", "step", "phone", "Workers", "workers",
               "Compensation", "compensation", "legal", "pay"}
TopicTexts == {<<B(ws)>> : ws \in SeqsUpTo(TopicWords, MaxWords) \ {<<>>}}

InitTopics ==
  /\ config = GoodConfig /\ calls = <<>>
  /\ dp_in \in {[call |-> "pending", text |-> t] : t \in TopicTexts}
  /\ dp_out = [ok |-> FALSE]
  /\ UploadOff /\ AppOff /\ LlmOff /\ CcOff

SpecTopics == InitTopics /\ [][NextChunk]_vars

\* ----------------------------------------------- the chat handler (app.py)
InitApp ==
  /\ config \in Configs /\ calls = <<>>
  /\ services = "unset" /\ messages = <<>> /\ qpc = "start" /\ nq = 0
  /\ question = "" /\ similar_chunks = <<>>
  /\ UploadOff /\ DpOff /\ LlmOff /\ CcOff

QCall(op, ok, n) == [op |-> op, at |-> nq, ok |-> ok, n |-> n, doc |-> 0]

NoSourcesText == [none |-> TRUE, items |-> <<>>]

UserMessage(content) == [role |-> "user", content |-> content]
AssistantMessage(content, sources) ==
  [role |-> "assistant", content |-> content, sources |-> sources]
\* An error message stored with the 'no sources' text.
ErrorMessageWithSources(e) ==
  [role |-> "assistant", content |-> <<"Sorry, I encountered an error", e>>,
   sources |-> [none |-> TRUE, items |-> <<>>]]

\* Lines 212-218: f"Sorry, I encountered an error: {str(e)}", no sources.
ErrorMessage(e) == [role |-> "assistant", content |-> <<"Sorry, I encountered an error", e>>]

\* A handler that lets the exception of a query end the script for good.
query_error_crash == "crashed"

\* Lines 212-218: the except clause ends the handling; the script goes on.
query_error_pc == "idle"

QueryError(e) ==
  /\ messages' = Append(messages, ErrorMessage(e))
  /\ qpc' = query_error_pc

\* Lines 78-90, 119-122: initialize_services (Config.validate, then the
\* constructors of the services; built: none of them raised); without
\* services main returns.
AppInitialize ==
  /\ qpc = "start"
  /\ \E built \in BOOLEAN :
       IF validate(config).raised \/ ~built
       THEN services' = "none" /\ qpc' = "stopped"
       ELSE services' = "ok" /\ qpc' = "idle"
  /\ UNCHANGED <<cfg_vars, up_vars, messages, nq, question, similar_chunks,
                 dp_vars, llm_vars, cc_vars>>

\* Lines 165-171: a question is typed; it joins the history.
AppSubmit ==
  /\ qpc = "idle" /\ nq < MaxQueries
  /\ \E q \in Questions :
       /\ question' = q
       /\ messages' = Append(messages, UserMessage(q))
  /\ nq' = nq + 1
  /\ qpc' = "embed"
  /\ similar_chunks' = <<>>
  /\ UNCHANGED <<cfg_vars, up_vars, services, dp_vars, llm_vars, cc_vars>>

\* Line 181: get_embedding(prompt).
AppEmbed ==
  /\ qpc = "embed"
  /\ \E ok \in BOOLEAN :
       /\ calls' = Append(calls, QCall("get_embedding", ok, 1))
       /\ IF ok THEN qpc' = "search" /\ UNCHANGED messages
          ELSE QueryError("Error getting embedding")
  /\ UNCHANGED <<config, up_vars, services, nq, question, similar_chunks,
                 dp_vars, llm_vars, cc_vars>>

\* A handler that never takes the empty-result branch.
no_result_never(found) == FALSE

\* Line 186: if not similar_chunks.
no_result(found) == found = <<>>

\* Lines 184-188, 197-205: search_similar_chunks; an empty result is answered
\* with the fixed message, without a generation call.
AppSearch ==
  /\ qpc = "search"
  /\ \/ /\ calls' = Append(calls, QCall("search_similar_chunks", FALSE, 0))
        /\ QueryError("store error")
        /\ UNCHANGED similar_chunks
     \/ \E found \in ResultSeqs :
          /\ calls' = Append(calls, QCall("search_similar_chunks", TRUE, Len(found)))
          /\ similar_chunks' = found
          /\ IF no_result(found)
             THEN /\ messages' = Append(messages,
                                   AssistantMessage(InsufficientMsg, NoSourcesText))
                  /\ qpc' = "idle"
             ELSE /\ qpc' = "generate"
                  /\ UNCHANGED messages
  /\ UNCHANGED <<config, up_vars, services, nq, question, dp_vars, llm_vars, cc_vars>>

\* Lines 190-205: generate_response, format_sources, the assistant message.
AppGenerate ==
  /\ qpc = "generate"
  /\ \E http \in HttpOutcomes :
       LET r == generate_response(question, similar_chunks, http)
       IN  /\ calls' = calls \o
                  [i \in DOMAIN r.sent |->
                     [op |-> "generate", at |-> nq, ok |-> r.ok, n |-> 1, doc |-> 0,
                      prompt |-> r.sent[i]]]
           /\ IF r.ok
              THEN /\ messages' = Append(messages,
                        AssistantMessage(r.text,
                          [none |-> FALSE, items |-> format_sources(similar_chunks)]))
                   /\ qpc' = "idle"
              ELSE QueryError(r.text)
  /\ UNCHANGED <<config, up_vars, services, nq, question, similar_chunks,
                 dp_vars, llm_vars, cc_vars>>

\* Lines 220-223: Clear Chat.
AppClear ==
  /\ qpc = "idle" /\ messages # <<>>
  /\ messages' = <<>>
  /\ UNCHANGED <<cfg_vars, up_vars, services, qpc, nq, question, similar_chunks,
                 dp_vars, llm_vars, cc_vars>>

NextApp ==
  \/ AppInitialize
  \/ AppSubmit
  \/ AppEmbed
  \/ AppSearch
  \/ AppGenerate
  \/ AppClear

SpecApp == InitApp /\ [][NextApp]_vars

\* ------------------------------------- LLMService called directly
InitCompose ==
  /\ config = GoodConfig /\ calls = <<>>
  /\ llm_in = [n |-> 0] /\ llm_out = [ok |-> FALSE]
  /\ UploadOff /\ AppOff /\ DpOff /\ CcOff

\* generate_response(question, context_chunks), any sequence of results
ComposeCall ==
  /\ llm_in.n < MaxQueries
  /\ \E q \in Questions, chunks \in ResultSeqs, http \in HttpOutcomes :
       /\ llm_in' = [n |-> llm_in.n + 1, question |-> q, context_chunks |-> chunks]
       /\ llm_out' = generate_response(q, chunks, http)
  /\ UNCHANGED <<cfg_vars, up_vars, app_vars, dp_vars, cc_vars>>

NextCompose == ComposeCall

SpecCompose == InitCompose /\ [][NextCompose]_vars

\* ------------------------------------------- the two programs, either one
\* ------------------------- two ingestions side by side (document_uploader.py)
\* The body of the file loop (lines 45-70) run by two ingestions at once, one
\* document each: every ingestion has its own doc_info,
\* chunks_with_embeddings and document_id; they share the store, which
\* performs each insert request as a whole and generates the document ids.
Workers == {1, 2}

InitConcurrent ==
  /\ config = GoodConfig /\ calls = <<>>
  /\ \E f1, f2 \in {f \in Files : f.exists} :
       /\ f1 # f2
       /\ ingestions =
            [p \in Workers |->
               [file |-> IF p = 1 THEN f1 ELSE f2, pc |-> "process",
                doc_info |-> NoDoc, chunks_with_embeddings |-> <<>>,
                document_id |-> 0]]
  /\ UploadOff /\ AppOff /\ DpOff /\ LlmOff

\* An ingestion that writes its chunks under the id the store gave last.
document_id_latest(own, latest) == latest

\* Line 65: insert_chunks gets the document_id of this ingestion (line 57).
document_id_argument(own, latest) == own

CcUnchanged ==
  UNCHANGED <<cfg_vars, file_paths, pc, fi, doc_info, chunks_with_embeddings,
              document_id, stdout, app_vars, dp_vars, llm_vars>>

\* Lines 45-48, 68-70.
CcProcess(p) ==
  /\ ingestions # <<>> /\ ingestions[p].pc = "process"
  /\ \E faults \in SUBSET ChunkFaults :
       \E d \in {process_document(ingestions[p].file, faults)} :
         ingestions' =
           [ingestions EXCEPT ![p].doc_info = d,
                              ![p].pc = IF d.ok THEN "embed" ELSE "failed"]
  /\ UNCHANGED <<documents, chunk_rows>>
  /\ CcUnchanged

\* Lines 50-53, 68-70.
CcEmbed(p) ==
  /\ ingestions # <<>> /\ ingestions[p].pc = "embed"
  /\ \E behaviour \in ApiBehaviours :
       \E e \in {embed_chunks(ingestions[p].doc_info.chunks, behaviour)} :
         ingestions' =
           [ingestions EXCEPT ![p].chunks_with_embeddings = e.chunks,
                              ![p].pc = IF e.ok THEN "insert_document" ELSE "failed"]
  /\ UNCHANGED <<documents, chunk_rows>>
  /\ CcUnchanged

\* Lines 55-62, 68-70.
CcInsertDocument(p) ==
  /\ ingestions # <<>> /\ ingestions[p].pc = "insert_document"
  /\ \E store_ok \in BOOLEAN :
       IF store_ok
       THEN /\ documents' = Append(documents,
                               DocumentRow(Len(documents) + 1, ingestions[p].doc_info))
            /\ ingestions' = [ingestions EXCEPT ![p].document_id = Len(documents) + 1,
                                                ![p].pc = "insert_chunks"]
       ELSE /\ documents' = documents
            /\ ingestions' = [ingestions EXCEPT ![p].pc = "failed"]
  /\ UNCHANGED chunk_rows
  /\ CcUnchanged

\* Lines 64-70.
CcInsertChunks(p) ==
  /\ ingestions # <<>> /\ ingestions[p].pc = "insert_chunks"
  /\ \E store_ok \in BOOLEAN :
       \E r \in {insert_chunks(document_id_argument(ingestions[p].document_id,
                                                    Len(documents)),
                                ingestions[p].chunks_with_embeddings, store_ok)} :
         /\ chunk_rows' = chunk_rows \o r.rows
         /\ ingestions' = [ingestions EXCEPT ![p].pc = IF r.ok THEN "uploaded"
                                                       ELSE "failed"]
  /\ UNCHANGED documents
  /\ CcUnchanged

NextConcurrent ==
  \/ \E p \in Workers : CcProcess(p)
  \/ \E p \in Workers : CcEmbed(p)
  \/ \E p \in Workers : CcInsertDocument(p)
  \/ \E p \in Workers : CcInsertChunks(p)

SpecConcurrent == InitConcurrent /\ [][NextConcurrent]_vars

Init == InitUpload \/ InitApp
Next == NextUpload \/ NextApp
Spec == Init /\ [][Next]_vars

\* ================================================================ properties
CallsAt(i, op) == {k \in DOMAIN calls : calls[k].at = i /\ calls[k].op = op}
EmbedFailed(i) == \E k \in CallsAt(i, "embed") : ~calls[k].ok
RowsOf(id) == {j \in DOMAIN chunk_rows : chunk_rows[j].document_id = id}
InsertChunksOf(id) ==
  {k \in DOMAIN calls : calls[k].op = "insert_chunks" /\ calls[k].doc = id}
FileOfDoc(id) ==
  CHOOSE i \in 1..Len(file_paths) :
    \E k \in CallsAt(i, "insert_document") : calls[k].ok /\ calls[k].doc = id

\* C1: in upload_documents, a file whose embedding step failed has no
\* insert_document and no insert_chunks call, hence no row in the store; the
\* chunk rows of a document are written by one successful insert request,
\* sent after the embedding call of its file succeeded, and they are all the
\* chunks of the document, each with the vector of its own content: a
\* document has all of its chunk rows or none.
C1_NoPartialChunks ==
  pc # "off" =>
    /\ \A i \in 1..Len(file_paths) :
         EmbedFailed(i) =>
           CallsAt(i, "insert_document") = {} /\ CallsAt(i, "insert_chunks") = {}
    /\ Len(documents) =
         Cardinality({k \in DOMAIN calls : calls[k].op = "insert_document" /\ calls[k].ok})
    /\ \A j \in DOMAIN chunk_rows : chunk_rows[j].document_id \in 1..Len(documents)
    /\ \A id \in 1..Len(documents) :
         LET ins == InsertChunksOf(id)
             i == FileOfDoc(id)
         IN  /\ Cardinality(ins) <= 1
             /\ (\A k \in ins : ~calls[k].ok) => RowsOf(id) = {}
             /\ RowsOf(id) # {} =>
                  /\ \E e \in CallsAt(i, "embed"), k \in ins :
                       /\ calls[e].ok /\ calls[k].ok /\ e < k
                       /\ calls[e].n = Cardinality(RowsOf(id))
                       /\ calls[k].n = Cardinality(RowsOf(id))
                  /\ \A j \in RowsOf(id) :
                       /\ chunk_rows[j].embedding = Vec(chunk_rows[j].content)
                       /\ JsonLoads(chunk_rows[j].metadata).total_chunks =
                            Cardinality(RowsOf(id))

\* A run in which one file's embedding failed (and left nothing in the store)
\* and another file's chunks, more than one, were written.
C1_Witness ==
  /\ pc = "completed"
  /\ \E i \in 1..Len(file_paths) : EmbedFailed(i)
  /\ \E id \in 1..Len(documents) : Cardinality(RowsOf(id)) > 1

FileMessages(i) == {k \in DOMAIN stdout : stdout[k].file = i}

\* The outcomes printed so far: one line for each file the loop has left,
\* none for the others; only a failure before the loop (configuration,
\* construction of the services) ends the run early.
C2_OneOutcomePerFile ==
  pc # "off" =>
    /\ pc = "exit" =>
         /\ calls = <<>> /\ fi = 1
         /\ Len(stdout) = 1 /\ stdout[1].msg = "fatal"
    /\ pc \in {"loop", "completed"} =>
         \A i \in 1..Len(file_paths) :
           Cardinality(FileMessages(i)) = (IF i < fi THEN 1 ELSE 0)
    /\ pc \in {"embed", "insert_document", "insert_chunks"} =>
         /\ fi \in 1..Len(file_paths)
         /\ \A i \in 1..Len(file_paths) :
              Cardinality(FileMessages(i)) = (IF i < fi THEN 1 ELSE 0)
    /\ \A k \in DOMAIN stdout :
         stdout[k].file > 0 => stdout[k].msg \in {"not_found", "error", "uploaded"}
    /\ pc = "completed" => fi = Len(file_paths) + 1

\* C2: in upload_documents, only a failure before the first file ends the
\* run early; a failure at any step of one file yields one error line for
\* that file and moves the loop on to the next file; every file of the list
\* gets exactly one outcome (not found, error or uploaded), and a run that
\* has entered the loop reaches 'completed' whatever fails in its files.
C2_FailureSkipsOneFile ==
  /\ []C2_OneOutcomePerFile
  /\ <>(pc \in {"completed", "exit"})
  /\ (pc = "loop") ~> (pc = "completed")

\* A completed run in which a file failed at the embedding step, or at an
\* insert, and a later file was uploaded.
C2_Witness ==
  /\ pc = "completed"
  /\ \E a, b \in DOMAIN stdout :
       /\ stdout[a].msg = "error" /\ stdout[a].stage \in {"embed", "insert_chunks"}
       /\ stdout[b].msg = "uploaded" /\ stdout[a].file < stdout[b].file

GenerateCalls(q) == CallsAt(q, "generate")
Last(seq) == seq[Len(seq)]

\* C3: in the chat handler, a search that returns no result is answered with
\* the fixed insufficient-knowledge message (and the 'no sources' text), and
\* no generation call is made for that question.
C3_EmptySearchNoGeneration ==
  \A k \in DOMAIN calls :
    (calls[k].op = "search_similar_chunks" /\ calls[k].ok /\ calls[k].n = 0) =>
      /\ GenerateCalls(calls[k].at) = {}
      /\ (calls[k].at = nq /\ messages # <<>>) =>
           /\ qpc = "idle"
           /\ Last(messages) = AssistantMessage(InsufficientMsg, NoSourcesText)

\* The second question found nothing and was answered with the fixed message,
\* after a first question that was answered by the model.
C3_Witness ==
  /\ nq = 2 /\ qpc = "idle" /\ Len(messages) = 4
  /\ GenerateCalls(1) # {} /\ GenerateCalls(2) = {}
  /\ \E k \in CallsAt(2, "search_similar_chunks") : calls[k].ok /\ calls[k].n = 0
  /\ Last(messages).content = InsufficientMsg

\* C4, as stated: generate_response called with no retrieval result returns
\* the fixed insufficient-knowledge message and sends no prompt.
C4_ComposerShortCircuits ==
  (llm_in.n > 0 /\ llm_in.context_chunks = <<>>) =>
    llm_out.sent = <<>> /\ llm_out.text = InsufficientMsg

\* C4, amended: generate_response itself does not short-circuit; called with
\* no retrieval result it sends exactly one prompt, holding the question and
\* an empty context block, and returns what the generation call gives (the
\* short-circuit is the chat handler's, C3).
C4_ComposerAlwaysGenerates ==
  (llm_in.n > 0 /\ llm_in.context_chunks = <<>>) =>
    /\ Len(llm_out.sent) = 1
    /\ llm_out.sent[1].context = <<>>
    /\ llm_out.sent[1].question = llm_in.question
    /\ llm_out.text # InsufficientMsg

\* generate_response was called with no result and returned an answer.
C4_Witness ==
  llm_in.n > 0 /\ llm_in.context_chunks = <<>> /\ llm_out.ok /\ llm_out.text = "answer"

\* A query step that failed: a gateway call with ok = FALSE joined the log.
QueryCallFailed ==
  /\ qpc \in {"embed", "search", "generate"}
  /\ Len(calls') = Len(calls) + 1
  /\ ~Last(calls').ok

\* C5: a failure of the query embedding, of the search or of the generation
\* call appends exactly one assistant message, the error message (with no
\* sources), to the history, and leaves the handler idle with its services, as
\* after an answered question: it never ends the script, and the next
\* question is handled from the same handler state.
C5_QueryFailureIsOneMessage ==
  /\ [][QueryCallFailed =>
          /\ Len(messages') = Len(messages) + 1
          /\ SubSeq(messages', 1, Len(messages)) = messages
          /\ Last(messages').role = "assistant"
          /\ DOMAIN Last(messages') = {"role", "content"}
          /\ Last(messages').content[1] = "Sorry, I encountered an error"
          /\ qpc' = "idle" /\ services' = "ok" /\ nq' = nq]_vars
  /\ [](qpc \in {"off", "start", "stopped", "idle", "embed", "search", "generate"})

\* The first question failed at the generation call and got the error
\* message; the second was then answered by the model, with sources.
C5_Witness ==
  /\ nq = 2 /\ qpc = "idle" /\ Len(messages) = 4
  /\ \E k \in GenerateCalls(1) : ~calls[k].ok
  /\ DOMAIN messages[2] = {"role", "content"}
  /\ \E k \in GenerateCalls(2) : calls[k].ok
  /\ messages[4].content = "answer" /\ ~messages[4].sources.none

IndicesOK(chunks) ==
  \A i \in DOMAIN chunks :
    /\ chunks[i].metadata.chunk_index = i - 1
    /\ chunks[i].metadata.total_chunks = Len(chunks)

\* C6: every chunk sequence chunk_text returns (Markdown path, general path,
\* fallback) has chunk_index 0..N-1 in sequence order and total_chunks = N in
\* every chunk, and the chunk_index column insert_chunks writes for position
\* i is that chunk's metadata chunk_index.
C6_ChunkIndicesDense ==
  (dp_in.call # "pending" /\ dp_in.call # "none" /\ dp_out.ok) =>
    /\ IndicesOK(dp_out.chunks)
    /\ dp_out.rows # <<>> =>
         /\ Len(dp_out.rows) = Len(dp_out.chunks)
         /\ \A i \in DOMAIN dp_out.rows :
              /\ dp_out.rows[i].chunk_index = dp_out.chunks[i].metadata.chunk_index
              /\ JsonLoads(dp_out.rows[i].metadata).chunk_index = i - 1

\* chunk_text on Markdown with a section that was sub-split and a later
\* section that was not, and the rows of its chunks.
C6_Witness ==
  /\ dp_in.call = "chunk_text" /\ dp_out.ok /\ dp_out.rows # <<>>
  /\ \E i, j \in DOMAIN dp_out.chunks :
       /\ i < j
       /\ "section_header" \in DOMAIN dp_out.chunks[i].metadata
       /\ dp_out.chunks[i].metadata.total_sub_chunks > 1
       /\ dp_out.chunks[i].metadata.sub_chunk_index > 0
       /\ dp_out.chunks[j].metadata.total_sub_chunks = 1

MissingVars == {v \in Range(required_vars) : ~Truthy(config[v])}

\* C7: when some required variable is unset or empty, Config.validate raises
\* one error that names exactly the missing variables, each once;
\* upload_documents then prints that one fatal error and exits without any
\* extraction, embedding or store operation, and initialize_services builds
\* no service, so the chat handler never starts.
C7_ConfigValidatedFirst ==
  MissingVars # {} =>
    /\ validate(config).raised
    /\ Range(validate(config).missing_vars) = MissingVars
    /\ Len(validate(config).missing_vars) = Cardinality(MissingVars)
    /\ pc \in {"off", "start", "exit"}
    /\ pc = "exit" =>
         /\ Len(stdout) = 1 /\ stdout[1].msg = "fatal"
         /\ Range(stdout[1].missing_vars) = MissingVars
         /\ Len(stdout[1].missing_vars) = Cardinality(MissingVars)
    /\ calls = <<>> /\ documents = <<>> /\ chunk_rows = <<>> /\ doc_info = NoDoc
    /\ qpc \in {"off", "start", "stopped"}
    /\ services \in {"unset", "none"}
    /\ messages = <<>>

\* upload_documents exited on a configuration with several variables missing.
C7_Witness ==
  /\ pc = "exit" /\ Cardinality(MissingVars) >= 2 /\ file_paths # <<>>
  /\ Len(stdout[1].missing_vars) = Cardinality(MissingVars)

\* C8, as stated: process_document on the Markdown file
\* "# Benefits / one line / # Appeals / one line" (no longer than chunk_size)
\* gives 2 chunks with section_header Benefits and Appeals, total_chunks 2
\* and no content_type key.
C8_TwoSectionChunks ==
  (/\ dp_in.call = "process_document" /\ dp_in.text = MdSource
   /\ dp_in.filename.ext = ".md" /\ dp_in.clean /\ dp_out.rows = <<>>) =>
    /\ dp_out.ok
    /\ Len(dp_out.chunks) = 2
    /\ dp_out.chunks[1].metadata.section_header = "Benefits"
    /\ dp_out.chunks[2].metadata.section_header = "Appeals"
    /\ \A i \in DOMAIN dp_out.chunks :
         /\ dp_out.chunks[i].metadata.total_chunks = 2
         /\ "content_type" \notin DOMAIN dp_out.chunks[i].metadata

CitedAs(result) ==
  CASE result.content = "c1" -> [title |-> "Guide", filename |-> "guide.md"]
    [] result.content = "c2" -> [title |-> "act.pdf", filename |-> "act.pdf"]
    [] OTHER -> [title |-> "Unknown", filename |-> "Unknown"]

\* C10: for retrieval results r_1..r_n, n > 0, generate_response sends one
\* prompt; it holds the question and a context of exactly n blocks, block i
\* numbered i and holding title, file name and content of r_i.
C10_ContextBlocksInOrder ==
  (llm_in.n > 0 /\ llm_in.context_chunks # <<>>) =>
    /\ Len(llm_out.sent) = 1
    /\ llm_out.sent[1].question = llm_in.question
    /\ Len(llm_out.sent[1].context) = Len(llm_in.context_chunks)
    /\ \A i \in DOMAIN llm_in.context_chunks :
         LET block == llm_out.sent[1].context[i]
             r == llm_in.context_chunks[i]
         IN  /\ block.n = i
             /\ block.content = r.content
             /\ block.title = CitedAs(r).title
             /\ block.filename = CitedAs(r).filename

\* generate_response was called with two different results.
C10_Witness ==
  /\ llm_in.n > 0 /\ Len(llm_in.context_chunks) = 2
  /\ llm_in.context_chunks[1] # llm_in.context_chunks[2]
  /\ llm_out.ok

\* The question asked last was answered by the model.
LastAnswered ==
  /\ qpc = "idle" /\ messages # <<>>
  /\ "sources" \in DOMAIN Last(messages)
  /\ ~Last(messages).sources.none

\* C11: when a question with a non-empty search result has been answered, the
\* sources stored with the answer and the context blocks of the prompt sent
\* for that question are built from the same result sequence: as many
\* entries, entry i numbered i in both, with the same title and file name,
\* the block holding the content and the source line the similarity of
\* result i.
C11_SourcesMatchPrompt ==
  LastAnswered =>
    /\ Cardinality(GenerateCalls(nq)) = 1
    /\ \A k \in GenerateCalls(nq) :
         LET context == calls[k].prompt.context
             items == Last(messages).sources.items
         IN  /\ calls[k].ok
             /\ Len(items) = Len(similar_chunks)
             /\ Len(context) = Len(similar_chunks)
             /\ \A i \in DOMAIN similar_chunks :
                  /\ items[i].n = i /\ context[i].n = i
                  /\ items[i].title = context[i].title
                  /\ items[i].filename = context[i].filename
                  /\ items[i].title = CitedAs(similar_chunks[i]).title
                  /\ context[i].content = similar_chunks[i].content
                  /\ items[i].similarity = similar_chunks[i].similarity

\* An answer whose two sources have different titles.
C11_Witness ==
  /\ LastAnswered
  /\ Len(Last(messages).sources.items) = 2
  /\ Last(messages).sources.items[1].title # Last(messages).sources.items[2].title

\* The chunks of the general path: those with a content_type.
GeneralChunks ==
  IF dp_in.call = "chunk_text" /\ dp_out.ok
  THEN {i \in DOMAIN dp_out.chunks : "content_type" \in DOMAIN dp_out.chunks[i].metadata}
  ELSE {}

\* The key word group whose key word a word of the model contains, in any
\* letter case.
GroupOf(w) ==
  CASE w \in {"Claim", "claim", "Compensation", "compensation", "Benefits"} -> "claims"
    [] w = "law" -> "legal"
    [] w = "step" -> "procedural"
    [] w = "phone" -> "contact"
    [] OTHER -> "none"

Groups(toks) == {GroupOf(toks[i]) : i \in DOMAIN toks}

\* C12: the content_type of a general-path chunk is 'claims' if the chunk
\* holds a claims key word, else 'legal' if it holds a legal key word, else
\* 'procedural', else 'contact' by the same test, and 'general' exactly when
\* it holds no key word of any group; letter case does not matter.
C12_ContentTypePrecedence ==
  \A i \in GeneralChunks :
    LET g == Groups(dp_out.chunks[i].content)
        content_type == dp_out.chunks[i].metadata.content_type
    IN  /\ content_type =
             (IF "claims" \in g THEN "claims"
              ELSE IF "legal" \in g THEN "legal"
              ELSE IF "procedural" \in g THEN "procedural"
              ELSE IF "contact" \in g THEN "contact"
              ELSE "general")
        /\ content_type = "general" <=> g \subseteq {"none"}

\* A chunk with a legal, a contact and (in capitals, last) a claims key word.
C12_Witness ==
  \E i \in GeneralChunks :
    /\ dp_out.chunks[i].content = <<"law", "phone", "Claim">>
    /\ dp_out.chunks[i].metadata.content_type = "claims"

\* The topics a text of the model holds, in the order of the vocabulary.
HoldsTopic(kw, toks) ==
  CASE kw = "workers compensation" ->
         \E i \in DOMAIN toks :
           /\ i < Len(toks)
           /\ toks[i] \in {"Workers", "workers"}
           /\ toks[i + 1] \in {"Compensation", "compensation"}
    [] kw = "claim" -> \E i \in DOMAIN toks : toks[i] \in {"Claim", "claim"}
    [] kw = "benefits" -> \E i \in DOMAIN toks : toks[i] \in {"Benefits", "benefits"}
    [] kw = "legal" -> \E i \in DOMAIN toks : toks[i] = "legal"
    [] kw = "appeal" -> \E i \in DOMAIN toks : toks[i] \in {"appeal", "Appeals"}
    [] OTHER -> FALSE

TopicsOf(toks) ==
  SelectSeq(<<"workers compensation", "claim", "benefits", "legal", "appeal">>,
            LAMBDA kw : HoldsTopic(kw, toks))

\* The same text in the other letter case.
OtherCase(w) ==
  CASE w = "Workers" -> "workers"
    [] w = "workers" -> "Workers"
    [] w = "Compensation" -> "compensation"
    [] w = "compensation" -> "Compensation"
    [] w = "Claim" -> "claim"
    [] OTHER -> w

CaseTwin(toks) == [i \in DOMAIN toks |-> OtherCase(toks[i])]

\* C13: the key_topics of a general-path chunk are the key words and key
\* phrases of the vocabulary that the chunk holds in any letter case, in
\* vocabulary order, each once; the same text in the other letter case has
\* the same key_topics.
C13_KeyTopicsCaseInsensitive ==
  \A i \in GeneralChunks :
    LET key_topics == dp_out.chunks[i].metadata.key_topics
        content == dp_out.chunks[i].content
    IN  /\ key_topics = TopicsOf(content)
        /\ \A a, b \in DOMAIN key_topics : key_topics[a] = key_topics[b] => a = b
        /\ extract_semantic_info(CaseTwin(content)).key_topics = key_topics

\* A chunk with a key phrase in capitals and two key words, out of
\* vocabulary order.
C13_Witness ==
  \E i \in GeneralChunks :
    /\ dp_out.chunks[i].content = <<"legal", "Workers", "Compensation">>
    /\ dp_out.chunks[i].metadata.key_topics = <<"workers compensation", "legal">>

\* The title chunk_text uses when its caller gave title.
TitleUsed(title) == IF title = "" THEN dp_in.filename.stem ELSE title

\* What the general path gives for the whole text of the call.
IsGeneralResult(chunks) ==
  \E title \in Titles :
    chunks = chunk_general_semantic(dp_in.text, dp_in.filename,
                                    TitleUsed(title), {}).chunks

HeaderSplitFailed ==
  /\ dp_in.call = "chunk_text"
  /\ dp_out.raised # <<>> /\ dp_out.raised[1] = "md_split"

\* C14, as stated: when the header-based split fails on the Markdown path,
\* chunk_text does not raise and returns the chunks of the general path for
\* the whole text.
C14_FallbackNeverRaises ==
  HeaderSplitFailed => dp_out.ok /\ IsGeneralResult(dp_out.chunks)

\* C14, amended: when the header-based split fails on the Markdown path, its
\* exception does not reach the caller; chunk_text gives what the general
\* path gives for the whole text: the chunks of the general path, none of
\* them a Markdown-path chunk, or, when the general path raises too, that
\* exception, which does reach the caller.
C14_FallbackToGeneralPath ==
  HeaderSplitFailed =>
    IF Len(dp_out.raised) = 1
    THEN /\ dp_out.ok
         /\ IsGeneralResult(dp_out.chunks)
         /\ \A i \in DOMAIN dp_out.chunks :
              /\ "section_header" \notin DOMAIN dp_out.chunks[i].metadata
              /\ "content_type" \in DOMAIN dp_out.chunks[i].metadata
    ELSE /\ ~dp_out.ok /\ dp_out.chunks = <<>>
         /\ dp_out.raised = <<"md_split", "general_token">>

\* The header split failed on a Markdown text with two headed sections, and
\* the general path gave chunks for the whole text, heading lines included.
C14_Witness ==
  /\ HeaderSplitFailed /\ dp_out.ok
  /\ Len(dp_in.text) = 4 /\ dp_in.text[1].lvl = 1 /\ dp_in.text[3].lvl = 1
  /\ dp_in.text[2].lvl = 0 /\ dp_in.text[4].lvl = 0
  /\ Len(dp_out.chunks) >= 1
  /\ dp_out.chunks[1].content[1] = "#"

\* C15: chunk_text on the empty text, with splitters that work, returns the
\* empty chunk sequence and raises nothing, whatever the file extension
\* (Markdown path or general path) and the title.
C15_EmptyTextNoChunks ==
  (dp_in.call = "chunk_text" /\ dp_in.text = <<>> /\ dp_in.clean) =>
    dp_out.ok /\ dp_out.chunks = <<>> /\ dp_out.raised = <<>>

\* chunk_text returned for the empty text of a Markdown file.
C15_Witness ==
  /\ dp_in.call = "chunk_text" /\ dp_in.text = <<>> /\ dp_in.clean
  /\ IsMarkdownExt(dp_in.filename.ext)
  /\ dp_out.ok

\* The heading of level k that encloses line j of a Markdown text: the last
\* one before j with no heading of its level or above in between.
Enclosing(text, j, k) ==
  {i \in 1..(j - 1) :
     /\ text[i].lvl = k
     /\ \A m \in (i + 1)..(j - 1) : text[m].lvl = 0 \/ text[m].lvl > k}

HeadingText(text, j, k) ==
  IF Enclosing(text, j, k) = {} THEN ""
  ELSE text[CHOOSE i \in Enclosing(text, j, k) : TRUE].toks[1]

\* Level 1 if line j has one, else level 2, else level 3, else "".
PreferredHeading(text, j) ==
  IF HeadingText(text, j, 1) # "" THEN HeadingText(text, j, 1)
  ELSE IF HeadingText(text, j, 2) # "" THEN HeadingText(text, j, 2)
  ELSE HeadingText(text, j, 3)

\* The preferred headings of the body lines, in text order.
BodyHeadings(text) ==
  LET body == SelectSeq([i \in DOMAIN text |-> i], LAMBDA i : text[i].lvl = 0)
  IN  [k \in DOMAIN body |-> PreferredHeading(text, body[k])]

\* A sequence without its immediate repetitions.
RECURSIVE Dedup(_)
Dedup(seq) ==
  IF Len(seq) <= 1 THEN seq
  ELSE IF seq[1] = seq[2] THEN Dedup(Tail(seq))
  ELSE <<seq[1]>> \o Dedup(Tail(seq))

MarkdownPathDone ==
  /\ dp_in.call = "chunk_text" /\ IsMarkdownExt(dp_in.filename.ext)
  /\ dp_out.ok /\ dp_out.raised = <<>>

\* C16: on the Markdown path every chunk has a section_header, and the
\* headers of the chunks, in order, are the preferred headings of the body
\* lines of the text, in order (level 1 if the line has an enclosing level-1
\* heading, else level 2, else level 3, else the empty string); the
\* sub-chunks of one section all carry the header of its first sub-chunk.
C16_SectionHeaderPreference ==
  MarkdownPathDone =>
    /\ \A i \in DOMAIN dp_out.chunks :
         "section_header" \in DOMAIN dp_out.chunks[i].metadata
    /\ Dedup([i \in DOMAIN dp_out.chunks |-> dp_out.chunks[i].metadata.section_header])
         = Dedup(BodyHeadings(dp_in.text))
    /\ \A i \in DOMAIN dp_out.chunks :
         dp_out.chunks[i].metadata.sub_chunk_index > 0 =>
           dp_out.chunks[i].metadata.section_header =
             dp_out.chunks[i - 1].metadata.section_header

\* A section under a level-1 and a level-2 heading, split in two sub-chunks,
\* both tagged with the level-1 heading.
C16_Witness ==
  /\ MarkdownPathDone
  /\ dp_in.text = <<H(1, "Benefits"), H(2, "Weekly"), B(LongBody), B(LongBody)>>
  /\ Len(dp_out.chunks) = 2
  /\ dp_out.chunks[2].metadata.sub_chunk_index = 1
  /\ dp_out.chunks[1].metadata.section_header = "Benefits"
  /\ dp_out.chunks[2].metadata.section_header = "Benefits"

\* The chunk rows stored under a document id, in the order of the table.
RowSeqOf(id) == SelectSeq(chunk_rows, LAMBDA row : row.document_id = id)

\* What the ingestion of a file writes when it runs alone and nothing fails:
\* the rows of its chunks, under the id it was given.
AloneRows(file, faults, id) ==
  LET d == process_document(file, faults)
  IN  IF ~d.ok THEN <<>>
      ELSE insert_chunks(id, embed_chunks(d.chunks, "exact").chunks, TRUE).rows

\* C17: with two ingestions of two different documents interleaved in any
\* way, every chunk row carries the document id that the insert_document of
\* the ingestion of its document returned; the rows under the id of an
\* ingestion are none or exactly the rows (contents, indices, metadata,
\* vectors) that this ingestion writes when it runs alone; the document row
\* of an id describes the file of its ingestion; whatever the other ingestion
\* does or fails at changes none of this.
C17_ConcurrentIngestionsIndependent ==
  ingestions # <<>> =>
    /\ \A j \in DOMAIN chunk_rows :
         \E p \in Workers :
           /\ ingestions[p].document_id = chunk_rows[j].document_id
           /\ ingestions[p].document_id # 0
    /\ \A p, q \in Workers :
         (p # q /\ ingestions[p].document_id # 0) =>
           ingestions[p].document_id # ingestions[q].document_id
    /\ \A p \in Workers :
         LET id == ingestions[p].document_id
         IN  id # 0 =>
               /\ documents[id].filename = ingestions[p].file.name
               /\ RowSeqOf(id) # <<>> =>
                    /\ ingestions[p].pc = "uploaded"
                    /\ \E faults \in SUBSET ChunkFaults :
                         RowSeqOf(id) = AloneRows(ingestions[p].file, faults, id)
               /\ ingestions[p].pc = "uploaded" =>
                    Len(RowSeqOf(id)) = Len(ingestions[p].doc_info.chunks)

\* Both ingestions wrote their rows, the one that got the second id first,
\* and the documents have different numbers of chunks.
C17_Witness ==
  /\ ingestions # <<>>
  /\ \A p \in Workers : ingestions[p].pc = "uploaded"
  /\ Len(RowSeqOf(1)) # Len(RowSeqOf(2))
  /\ chunk_rows[1].document_id = 2

ExternalOps ==
  {"embed", "insert_document", "insert_chunks",
   "get_embedding", "search_similar_chunks", "generate"}

\* C18: for each file of an upload and each question of a chat, every
\* external operation (batch embedding, insert_document, insert_chunks; query
\* embedding, search, generation) is called at most once, and a call that
\* failed is the last call made for its file or question.
C18_NoRetries ==
  /\ \A k \in DOMAIN calls :
       calls[k].op \in ExternalOps \cup {"process_document"}
  /\ \A k, m \in DOMAIN calls :
       (k < m /\ calls[k].at = calls[m].at) =>
         /\ calls[k].op # calls[m].op
         /\ calls[k].ok

\* The generation call of the first question failed and was the last call of
\* that question; the second question made its own calls.
C18_Witness ==
  /\ nq = 2 /\ qpc = "idle"
  /\ \E k \in GenerateCalls(1) : ~calls[k].ok
  /\ Cardinality({k \in DOMAIN calls : calls[k].at = 1}) = 3
  /\ Cardinality({k \in DOMAIN calls : calls[k].at = 2}) = 3

\* The files whose insert_chunks step failed.
InsertChunksFailed(i) ==
  \E k \in DOMAIN stdout :
    stdout[k].file = i /\ stdout[k].msg = "error" /\ stdout[k].stage = "insert_chunks"

\* C19: in upload_documents the document row of a file is written before its
\* chunk rows and is never removed: when insert_chunks fails (the store
\* refuses the request, or a chunk has no embedding) after insert_document
\* succeeded, the document row stays, with no chunk row; every stored
\* document has as many chunk rows as its file has chunks, or none.
C19_DocumentRowWithoutChunks ==
  /\ [][/\ Len(documents') >= Len(documents)
        /\ SubSeq(documents', 1, Len(documents)) = documents
        /\ Len(chunk_rows') > Len(chunk_rows) =>
             /\ pc = "insert_chunks" /\ document_id \in 1..Len(documents)
             /\ \A j \in (Len(chunk_rows) + 1)..Len(chunk_rows') :
                  chunk_rows'[j].document_id = document_id]_vars
  /\ [](pc # "off" =>
          /\ \A i \in 1..Len(file_paths) :
               InsertChunksFailed(i) =>
                 \E k \in CallsAt(i, "insert_document") :
                   /\ calls[k].ok
                   /\ calls[k].doc \in 1..Len(documents)
                   /\ documents[calls[k].doc].id = calls[k].doc
                   /\ documents[calls[k].doc].filename = file_paths[i].name
                   /\ RowsOf(calls[k].doc) = {}
          /\ \A id \in 1..Len(documents) :
               \/ RowsOf(id) = {}
               \/ \E e \in CallsAt(FileOfDoc(id), "embed") :
                    calls[e].ok /\ Cardinality(RowsOf(id)) = calls[e].n)

\* A completed run that left a document row without chunk rows, because the
\* embedding answer was too short, next to a document with all its rows.
C19_Witness ==
  /\ pc = "completed" /\ Len(documents) = 2
  /\ \E i \in 1..Len(file_paths) :
       /\ InsertChunksFailed(i)
       /\ CallsAt(i, "insert_chunks") = {}
  /\ \E id \in 1..Len(documents) : Cardinality(RowsOf(id)) > 1
  /\ \E id \in 1..Len(documents) : RowsOf(id) = {}

\* user, assistant, user, assistant, ...
Alternating(history) ==
  \A i \in DOMAIN history :
    history[i].role = (IF i % 2 = 1 THEN "user" ELSE "assistant")

\* C20: the chat history alternates user, assistant, ...: it is complete
\* (even) whenever the handler is idle, and holds the question alone at its
\* end while the question is handled; a step changes it by appending one
\* message or, for Clear Chat, by emptying it; the assistant message of a
\* question carries sources exactly when no call made for the question
\* failed.
C20_HistoryAlternates ==
  /\ [](/\ Alternating(messages)
        /\ qpc \in {"off", "start", "stopped", "idle"} => Len(messages) % 2 = 0
        /\ qpc \in {"embed", "search", "generate"} =>
             /\ Len(messages) % 2 = 1
             /\ Last(messages) = UserMessage(question))
  /\ [][\/ messages' = messages
        \/ /\ messages' = <<>> /\ qpc = "idle" /\ qpc' = "idle" /\ calls' = calls
        \/ /\ Len(messages') = Len(messages) + 1
           /\ SubSeq(messages', 1, Len(messages)) = messages
           /\ Last(messages').role = "assistant" =>
                /\ Len(calls') = Len(calls) + 1
                /\ "sources" \in DOMAIN Last(messages') <=> Last(calls').ok]_vars

\* After a failed question, Clear Chat, and an answered question: the
\* history holds the second question and its answer only.
C20_Witness ==
  /\ nq = 2 /\ qpc = "idle" /\ Len(messages) = 2
  /\ \E k \in DOMAIN calls : calls[k].at = 1 /\ ~calls[k].ok
  /\ messages[1].role = "user" /\ messages[2].role = "assistant"
  /\ "sources" \in DOMAIN messages[2]

====
